---- MODULE Spec2Model ----
(***************************************************************************)
(* UnderstandingModuleGraphPlugin (webpack.config.js): on finishModules    *)
(* the plugin walks compilation.moduleGraph._moduleMap depth-first from    *)
(* the null module and logs one label per visited node.                    *)
(*                                                                         *)
(* The recursion of traverse is modelled by an explicit stack of frames;   *)
(* a frame holds the node, the Set `children` computed for it and the      *)
(* position of the for..of loop over that Set.                             *)
(***************************************************************************)
EXTENDS Integers, Sequences, FiniteSets, TLC

\* ------------------------------------------------------------------ bounds
MaxModules == 2     \* modules besides the null module in the enumerated graphs
MaxEdges == 3       \* connections in an enumerated graph
MaxResLen == 2      \* characters in an enumerated resource string
MaxRuns == 2        \* firings of finishModules

\* ------------------------------------------------------------------ nodes
NullModule == "null"
ModuleNames == <<"A", "B", "C", "D">>
AllModules == {ModuleNames[i] : i \in 1..Len(ModuleNames)}
EnumModules == {ModuleNames[i] : i \in 1..MaxModules}
Nodes == {NullModule} \cup AllModules
EnumNodes == {NullModule} \cup EnumModules

\* ------------------------------------------------------------------ strings
Chars == {"/", "a"}
BoundedSeq(S, n) == UNION {[1..k -> S] : k \in 0..n}

\* module.resource: undefined (a module that has no resource) or a string
NoResource == [defined |-> FALSE, value |-> <<>>]
Resource(s) == [defined |-> TRUE, value |-> s]
ResourceSet == {NoResource} \cup {Resource(s) : s \in BoundedSeq(Chars, MaxResLen)}

CanonicalResource ==
    [m \in AllModules |->
        Resource(<<"/", CASE m = "A" -> "a" [] m = "B" -> "b"
                          [] m = "C" -> "c" [] OTHER -> "d">>)]
ResourceMaps ==
    {[m \in AllModules |-> IF m \in EnumModules THEN f[m] ELSE CanonicalResource[m]] :
        f \in [EnumModules -> ResourceSet]}

\* ------------------------------------------------------------------ graphs
\* moduleMap.get(node): no entry, or a ModuleGraphModule whose
\* outgoingConnections is undefined or a Set of connections (in insertion
\* order; a connection is represented by its `module`, the target).
NoEntry == [exists |-> FALSE, defined |-> FALSE, outgoingConnections |-> <<>>]
UndefEntry == [exists |-> TRUE, defined |-> FALSE, outgoingConnections |-> <<>>]
SetEntry(s) == [exists |-> TRUE, defined |-> TRUE, outgoingConnections |-> s]

EmptyGraphs ==
    {g \in [Nodes -> {NoEntry, UndefEntry, SetEntry(<<>>)}] :
        /\ g[NullModule].exists
        /\ \A m \in AllModules \ EnumModules : g[m] = NoEntry}
AddConnection(g, u, v) ==
    [g EXCEPT ![u] = SetEntry(Append(g[u].outgoingConnections, v))]
RECURSIVE GraphsWith(_)
GraphsWith(e) ==
    IF e = 0 THEN EmptyGraphs
    ELSE LET G == GraphsWith(e - 1)
         IN  G \cup {AddConnection(g, u, v) : g \in G, u \in EnumNodes, v \in EnumNodes}
Graphs == GraphsWith(MaxEdges)

\* Root -> {A}, A -> {B, C}, B -> {D}, C -> {D}, D -> {}
Diamond ==
    [n \in Nodes |->
        CASE n = NullModule -> SetEntry(<<"A">>)
          [] n = "A" -> SetEntry(<<"B", "C">>)
          [] n = "B" -> SetEntry(<<"D">>)
          [] n = "C" -> SetEntry(<<"D">>)
          [] OTHER -> UndefEntry]
\* the null module imports every enumerated module, in order
Star ==
    [n \in Nodes |->
        IF n = NullModule THEN SetEntry(SubSeq(ModuleNames, 1, MaxModules))
        ELSE IF n \in EnumModules THEN UndefEntry ELSE NoEntry]

VARIABLES moduleMap, resource, phase, visited, callee, stack, output, order,
          calls, prevOutputs
vars == <<moduleMap, resource, phase, visited, callee, stack, output, order,
          calls, prevOutputs>>

\* ------------------------------------------------------------------ helpers
\* faulty variant: the traversal is started at a module instead of the null module
rootIsModule == "A"
\* const root = null;
root == NullModule

RootLabel == <<"R", "O", "O", "T", " ">>

\* path.basename (posix, no suffix): trailing slashes are dropped, then the
\* part after the last remaining slash is returned
Basename(p) ==
    LET notSlash == {i \in 1..Len(p) : p[i] # "/"}
    IN  IF notSlash = {} THEN <<>>
        ELSE LET end == CHOOSE i \in notSlash : \A j \in notSlash : j <= i
                 slashes == {i \in 1..end : p[i] = "/"}
                 start == IF slashes = {} THEN 1
                          ELSE 1 + CHOOSE i \in slashes : \A j \in slashes : j <= i
             IN  SubSeq(p, start, end)

\* crtNode?.resource ? path.basename(crtNode?.resource) : `ROOT `
Label(n) ==
    IF n # NullModule /\ resource[n].defined /\ resource[n].value # <<>>
    THEN Basename(resource[n].value)
    ELSE RootLabel

\* new Set(array): first occurrences, in order
RECURSIVE Dedup(_)
Dedup(s) ==
    IF s = <<>> THEN <<>>
    ELSE LET front == Dedup(SubSeq(s, 1, Len(s) - 1))
             last == s[Len(s)]
         IN  IF \E i \in 1..Len(front) : front[i] = last THEN front
             ELSE Append(front, last)

\* faulty variant: the loop runs over `modules`, every built module, instead of
\* the node's connections
HasEntry(m) == moduleMap[m].exists
TargetsFromModules(mgm) == SelectSeq(ModuleNames, HasEntry)
\* Array.from(correspondingGraphModule.outgoingConnections || [], c => c.module)
Targets(mgm) == IF mgm.defined THEN mgm.outgoingConnections ELSE <<>>
Children(mgm) == Dedup(Targets(mgm))

\* faulty variant: the `|| []` default is missing, so Array.from(undefined) throws too
ThrowsWithoutDefault(n) == ~moduleMap[n].exists \/ ~moduleMap[n].defined
\* reading .outgoingConnections of undefined raises a TypeError
Throws(n) == ~moduleMap[n].exists

\* faulty variant: the visited check is missing
NeverVisited(v, n) == FALSE
\* visited.get(crtNode)
IsVisited(v, n) == n \in v

\* faulty variant: the Map is replaced by one that holds the newest node alone
MarkOnly(v, n) == {n}
\* visited.set(crtNode, true)
Mark(v, n) == v \cup {n}

\* faulty variant: `visited` is hoisted out of dfs and survives an invocation
KeepVisited(v) == v
\* const visited = new Map();  (inside dfs: one per invocation)
FreshVisited(v) == {}

\* faulty variant: the newest line is put first
EmitFront(out, l) == <<l>> \o out
\* faulty variant: a line equal to an earlier one is not logged again
EmitDistinct(out, l) ==
    IF \E i \in 1..Len(out) : out[i] = l THEN out ELSE Append(out, l)
\* console.log appends a line
Emit(out, l) == Append(out, l)

\* faulty variant: the loop stops one child early
LoopDoneEarly(frame) == frame.idx >= Len(frame.children)
\* the for..of iterator is exhausted
LoopDone(frame) == frame.idx > Len(frame.children)

Top == stack[Len(stack)]
Pop(s) == SubSeq(s, 1, Len(s) - 1)

\* ------------------------------------------------------------------ Init
Init ==
    /\ \/ moduleMap \in Graphs \cup {Diamond} /\ resource = CanonicalResource
       \/ moduleMap = Star /\ resource \in ResourceMaps
    /\ phase = "idle"
    /\ visited = {}
    /\ callee = <<>>
    /\ stack = <<>>
    /\ output = <<>>
    /\ order = <<>>
    /\ calls = <<>>
    /\ prevOutputs = <<>>

\* ------------------------------------------------------------------ actions
\* faulty variant: the callback defines dfs and returns without calling it
FinishModulesNoCall ==
    /\ phase \in {"idle", "done", "threw"}
    /\ Len(prevOutputs) + (IF phase = "idle" THEN 0 ELSE 1) < MaxRuns
    /\ prevOutputs' = IF phase = "idle" THEN prevOutputs ELSE Append(prevOutputs, output)
    /\ phase' = "done"
    /\ visited' = {}
    /\ output' = <<>>
    /\ order' = <<>>
    /\ stack' = <<>>
    /\ callee' = <<>>
    /\ calls' = <<>>
    /\ UNCHANGED <<moduleMap, resource>>

\* the finishModules callback runs dfs(), which creates `visited` and calls
\* traverse(root)
FinishModules ==
    /\ phase \in {"idle", "done", "threw"}
    /\ Len(prevOutputs) + (IF phase = "idle" THEN 0 ELSE 1) < MaxRuns
    /\ prevOutputs' = IF phase = "idle" THEN prevOutputs ELSE Append(prevOutputs, output)
    /\ phase' = "running"
    /\ visited' = FreshVisited(visited)
    /\ output' = <<>>
    /\ order' = <<>>
    /\ stack' = <<>>
    /\ callee' = <<root>>
    /\ calls' = <<<<"dfs", root>>>>
    /\ UNCHANGED <<moduleMap, resource>>

\* if (visited.get(crtNode)) return;
TraverseReturnVisited ==
    /\ phase = "running"
    /\ callee # <<>>
    /\ IsVisited(visited, callee[1])
    /\ callee' = <<>>
    /\ phase' = IF stack = <<>> THEN "done" ELSE phase
    /\ UNCHANGED <<moduleMap, resource, visited, stack, output, order, calls, prevOutputs>>

\* faulty variant: the connections are moved out of the ModuleGraphModule
\* while `children` is built
TraverseVisitDraining ==
    /\ phase = "running"
    /\ callee # <<>>
    /\ ~IsVisited(visited, callee[1])
    /\ ~Throws(callee[1])
    /\ visited' = Mark(visited, callee[1])
    /\ output' = Emit(output, Label(callee[1]))
    /\ order' = Emit(order, callee[1])
    /\ stack' = Append(stack, [node |-> callee[1],
                               children |-> Children(moduleMap[callee[1]]),
                               idx |-> 1])
    /\ callee' = <<>>
    /\ moduleMap' = [moduleMap EXCEPT ![callee[1]].outgoingConnections = <<>>]
    /\ UNCHANGED <<resource, phase, calls, prevOutputs>>

\* mark, log, look the node up, compute `children`
TraverseVisit ==
    /\ phase = "running"
    /\ callee # <<>>
    /\ ~IsVisited(visited, callee[1])
    /\ ~Throws(callee[1])
    /\ visited' = Mark(visited, callee[1])
    /\ output' = Emit(output, Label(callee[1]))
    /\ order' = Emit(order, callee[1])
    /\ stack' = Append(stack, [node |-> callee[1],
                               children |-> Children(moduleMap[callee[1]]),
                               idx |-> 1])
    /\ callee' = <<>>
    /\ UNCHANGED <<moduleMap, resource, phase, calls, prevOutputs>>

\* mark, log, then the lookup yields undefined and the property read throws;
\* nothing catches it, so every frame and the callback are left
TraverseThrow ==
    /\ phase = "running"
    /\ callee # <<>>
    /\ ~IsVisited(visited, callee[1])
    /\ Throws(callee[1])
    /\ visited' = Mark(visited, callee[1])
    /\ output' = Emit(output, Label(callee[1]))
    /\ order' = Emit(order, callee[1])
    /\ stack' = <<>>
    /\ callee' = <<>>
    /\ phase' = "threw"
    /\ UNCHANGED <<moduleMap, resource, calls, prevOutputs>>

\* for (const c of children) traverse(c);
LoopNext ==
    /\ phase = "running"
    /\ callee = <<>>
    /\ stack # <<>>
    /\ ~LoopDone(Top)
    /\ callee' = <<Top.children[Top.idx]>>
    /\ calls' = Append(calls, <<Top.node, Top.children[Top.idx]>>)
    /\ stack' = [stack EXCEPT ![Len(stack)].idx = @ + 1]
    /\ UNCHANGED <<moduleMap, resource, phase, visited, output, order, prevOutputs>>

\* the loop is exhausted: traverse returns
LoopEnd ==
    /\ phase = "running"
    /\ callee = <<>>
    /\ stack # <<>>
    /\ LoopDone(Top)
    /\ stack' = Pop(stack)
    /\ phase' = IF Len(stack) = 1 THEN "done" ELSE phase
    /\ UNCHANGED <<moduleMap, resource, visited, callee, output, order, calls, prevOutputs>>

Next ==
    \/ FinishModules
    \/ TraverseReturnVisited
    \/ TraverseVisit
    \/ TraverseThrow
    \/ LoopNext
    \/ LoopEnd

Spec == Init /\ [][Next]_vars
FairSpec == Spec /\ WF_vars(Next)

\* ------------------------------------------------------------------ graph vocabulary of the properties
\* the targets of n's recorded connections, in recorded order (none for a node
\* without an entry or with undefined connections)
Connections(n) == moduleMap[n].outgoingConnections
Succ(n) == {Connections(n)[i] : i \in 1..Len(Connections(n))}
RECURSIVE Closure(_, _)
\* the nodes reached from S by directed paths that never enter a node of X
Closure(S, X) ==
    LET N == S \cup (UNION {Succ(n) : n \in S} \ X)
    IN  IF N = S THEN S ELSE Closure(N, X)
Reachable == Closure({NullModule}, {})
\* the nodes reached from the null module without passing through u
ReachableAvoiding(u) == IF u = NullModule THEN {} ELSE Closure({NullModule}, {u})
OnCycle(n) == n \in Closure(Succ(n), {})
Count(s, x) == Cardinality({i \in 1..Len(s) : s[i] = x})
Pos(s, x) == CHOOSE i \in 1..Len(s) : s[i] = x
CallCount(u, v) == Count(calls, <<u, v>>)
Terminated == phase \in {"done", "threw"}

\* ------------------------------------------------------------------ C1
\* C1: when every reachable node has an entry in the module map and the
\* traversal has finished, every node reachable from the null module has been
\* emitted exactly once, nothing else has been emitted, and each emitted line
\* is the label of the node it was emitted for.
C1_Completeness ==
    (phase = "done" /\ \A n \in Reachable : moduleMap[n].exists) =>
        /\ \A n \in Reachable : Count(order, n) = 1
        /\ \A n \in Nodes : Count(order, n) <= 1
        /\ Len(output) = Len(order)
        /\ Len(output) = Cardinality(Reachable)
        /\ \A i \in 1..Len(order) : output[i] = Label(order[i])
\* a finished traversal of three nodes, two of which share a label
C1_Witness ==
    /\ phase = "done"
    /\ Cardinality(Reachable) >= 3
    /\ \E m, n \in Reachable \ {NullModule} : m # n /\ Label(m) = Label(n)
    /\ \A n \in Reachable : Count(order, n) = 1

\* ------------------------------------------------------------------ C2
\* C2: a node that is the target of a connection but has no entry in the
\* module map is treated as having no children: no error is raised.
C2_FailSoft ==
    (\E n \in visited : ~moduleMap[n].exists) => phase # "threw"

\* ------------------------------------------------------------------ C3
\* C3: a traversal of a graph with a cycle never gets stuck while it runs,
\* and when it has ended every node on a cycle that the null module reaches
\* has been emitted exactly once.
C3_CycleSafety ==
    /\ phase = "running" => ENABLED Next
    /\ Terminated =>
          \A n \in Reachable : OnCycle(n) => Count(order, n) = 1

\* ------------------------------------------------------------------ C4
\* C4: for every connection u -> v (u # v) such that every path from the
\* null module to v passes through u, v is never emitted unless u has been
\* emitted before it; at the end of a complete traversal both have been.
C4_PreOrder ==
    LET R == Reachable
    IN
    \A u \in Nodes : \A v \in Succ(u) \cap R :
        (u # v /\ v \notin ReachableAvoiding(u)) =>
            /\ Count(order, v) > 0 =>
                  /\ Count(order, u) > 0
                  /\ Pos(order, u) < Pos(order, v)
                  /\ output[Pos(order, u)] = Label(u)
                  /\ output[Pos(order, v)] = Label(v)
            /\ phase = "done" => Count(order, v) > 0
\* a module u dominates its child v, and both have been emitted
C4_Witness ==
    /\ phase = "done"
    /\ \E u \in AllModules : \E v \in Succ(u) \cap Reachable :
          /\ u # v
          /\ v \notin ReachableAvoiding(u)
          /\ Count(order, u) > 0 /\ Count(order, v) > 0
          /\ Pos(order, u) < Pos(order, v)

\* ------------------------------------------------------------------ C5
\* C5: when a visited node a has two or more connections to the same node b,
\* every frame of a holds b once in `children`, traverse(b) is never invoked
\* twice from a's loop and b is never emitted twice; when the traversal has
\* ended, traverse(b) has been invoked once from a's loop and b has been
\* emitted once.
C5_MultiEdgeCollapse ==
    \A a \in visited : \A b \in Nodes :
        Count(Connections(a), b) >= 2 =>
            /\ \A i \in 1..Len(stack) :
                  stack[i].node = a => Count(stack[i].children, b) = 1
            /\ CallCount(a, b) <= 1
            /\ Count(order, b) <= 1
            /\ Terminated => CallCount(a, b) = 1 /\ Count(order, b) = 1

\* ------------------------------------------------------------------ C6
\* C6: the first line emitted is the sentinel label, emitted for the null
\* module; every line emitted for a module comes after it.
C6_RootFirst ==
    Len(output) >= 1 =>
        /\ output[1] = RootLabel
        /\ order[1] = NullModule
        /\ \A i \in 1..Len(order) : order[i] \in AllModules => i > 1
C6_Witness ==
    /\ phase = "done"
    /\ Len(output) >= 3
    /\ output[1] = RootLabel
    /\ \E i \in 2..Len(order) : order[i] \in AllModules

\* ------------------------------------------------------------------ C7
\* C7: an emitted line is the sentinel label exactly when it was emitted for
\* the null module; a module's line is the last path component of its
\* resource, whatever the resource (missing and empty included).
C7_LabelDerivation ==
    \A i \in 1..Len(order) :
        /\ output[i] = RootLabel <=> order[i] = NullModule
        /\ order[i] \in AllModules =>
              output[i] = Basename(resource[order[i]].value)

\* ------------------------------------------------------------------ C8
\* C8: the traversal of the diamond emits exactly Root, A, B, D, C.
C8_Diamond ==
    (moduleMap = Diamond /\ resource = CanonicalResource /\ phase = "done") =>
        /\ order = <<NullModule, "A", "B", "D", "C">>
        /\ output = <<RootLabel, <<"a">>, <<"b">>, <<"d">>, <<"c">>>>
C8_Witness ==
    /\ moduleMap = Diamond
    /\ phase = "done"
    /\ Count(order, "D") = 1
    /\ CallCount("C", "D") = 1

\* ------------------------------------------------------------------ C9
\* C9: an invocation that has ended has emitted the same sequence as every
\* earlier invocation on the same graph, and that sequence covers every node
\* the earlier marks could have suppressed (all reachable nodes when the
\* invocation completed).
C9_Determinism ==
    Terminated =>
        /\ \A i \in 1..Len(prevOutputs) : prevOutputs[i] = output
        /\ phase = "done" => Len(output) = Cardinality(Reachable)
C9_Witness ==
    /\ phase = "done"
    /\ Len(prevOutputs) >= 1
    /\ Len(output) >= 3
    /\ prevOutputs[1] = output

\* ------------------------------------------------------------------ C10
\* C10: for a module map that holds only the null module, with undefined or
\* empty outgoing connections, the traversal raises nothing, emits the
\* sentinel label alone and is over two steps after its start.
RootOnly ==
    /\ moduleMap[NullModule].exists
    /\ Connections(NullModule) = <<>>
    /\ \A m \in AllModules : ~moduleMap[m].exists
C10_EmptyGraph ==
    RootOnly =>
        /\ phase # "threw"
        /\ phase = "done" => output = <<RootLabel>> /\ order = <<NullModule>>
        /\ phase = "running" =>
              \/ callee = <<NullModule>> /\ stack = <<>> /\ output = <<>>
                   /\ ENABLED TraverseVisit
              \/ callee = <<>> /\ Len(stack) = 1 /\ output = <<RootLabel>>
                   /\ ENABLED LoopEnd
C10_Witness ==
    /\ RootOnly
    /\ ~moduleMap[NullModule].defined
    /\ phase = "done"
    /\ output = <<RootLabel>>

\* ------------------------------------------------------------------ C11
\* C11: the frames of the call stack are for pairwise distinct nodes, each of
\* them marked visited; a pending call on a visited node adds no frame; the
\* depth never exceeds the number of distinct nodes of the graph.
GraphNodes == {n \in Nodes : moduleMap[n].exists} \cup UNION {Succ(n) : n \in Nodes}
C11_StackDistinct ==
    /\ \A i, j \in 1..Len(stack) : stack[i].node = stack[j].node => i = j
    /\ \A i \in 1..Len(stack) : stack[i].node \in visited
    /\ Len(stack) <= Cardinality(GraphNodes)
    /\ (callee # <<>> /\ callee[1] \in visited) => ENABLED TraverseReturnVisited
    /\ (callee # <<>> /\ callee[1] \in visited) => ~ENABLED TraverseVisit
\* a call on a node that is on the stack (a back edge) is pending, three deep
C11_Witness ==
    /\ Len(stack) >= 3
    /\ callee # <<>>
    /\ \E i \in 1..Len(stack) : stack[i].node = callee[1]

\* ------------------------------------------------------------------ C12
\* C12: in every step of a running traversal the visited set only grows, by at
\* most the node being entered, and holds nodes of the graph only; a node is
\* in it or not, and a node in it stays in it until the invocation has ended.
C12_VisitedMonotonic ==
    [][phase = "running" =>
          /\ visited \subseteq visited'
          /\ Cardinality(visited') <= Cardinality(visited) + 1
          /\ visited' \subseteq GraphNodes]_vars
\* a traversal has ended with three nodes marked
C12_Witness ==
    /\ phase = "done"
    /\ Cardinality(visited) >= 3
    /\ Len(stack) = 0

\* ------------------------------------------------------------------ C13
\* C13: no step of the callback changes the module map (its keys, and each
\* entry's connections and their order) or a module's resource; the steps
\* change the traversal's own state and the output only.
C13_GraphReadOnly ==
    [][moduleMap' = moduleMap /\ resource' = resource]_vars
\* a complete traversal of a graph with three connections over three nodes
C13_Witness ==
    /\ phase = "done"
    /\ Cardinality(visited) >= 3
    /\ Len(Connections(NullModule)) + Len(Connections("A"))
          + Len(Connections("B")) >= 3

\* ------------------------------------------------------------------ C14
\* the reference search: pre-order, depth-first, scanning a node's connections
\* in recorded order and skipping the targets already in the sequence
RECURSIVE RefVisit(_, _), RefScan(_, _, _)
RefVisit(n, acc) ==
    IF Count(acc, n) > 0 THEN acc
    ELSE RefScan(Connections(n), 1, Append(acc, n))
RefScan(ts, i, acc) ==
    IF i > Len(ts) THEN acc ELSE RefScan(ts, i + 1, RefVisit(ts[i], acc))
RefOrder == RefVisit(NullModule, <<>>)
FirstIndex(s, x) == CHOOSE i \in 1..Len(s) : s[i] = x /\ \A j \in 1..(i - 1) : s[j] # x
InFirstSeenOrder(children, targets) ==
    /\ \A i \in 1..Len(children) : Count(targets, children[i]) > 0
    /\ \A i \in 1..Len(targets) : Count(children, targets[i]) = 1
    /\ \A i, j \in 1..Len(children) :
          i < j => FirstIndex(targets, children[i]) < FirstIndex(targets, children[j])
\* C14: the children of every frame are the targets of the node's connections
\* in first-seen order, and when the traversal has ended the emitted sequence
\* is the sequence of the reference search.
C14_ChildOrder ==
    /\ \A i \in 1..Len(stack) :
          InFirstSeenOrder(stack[i].children, Connections(stack[i].node))
    /\ Terminated =>
          /\ order = RefOrder
          /\ output = [i \in 1..Len(RefOrder) |-> Label(RefOrder[i])]
\* what holds in every run: the emitted sequence is a prefix of the reference
\* sequence, and is all of it when the traversal completes
C14_PrefixOfReference ==
    /\ Len(order) <= Len(RefOrder)
    /\ order = SubSeq(RefOrder, 1, Len(order))
    /\ phase = "done" => order = RefOrder

\* ------------------------------------------------------------------ C15
\* C15: between steps the nodes emitted are exactly the nodes marked visited,
\* one line each, and every node from whose loop traverse has been invoked
\* (and every node that has a frame) has been emitted already.
C15_EmissionTracksMarking ==
    /\ {order[i] : i \in 1..Len(order)} = visited
    /\ Len(order) = Cardinality(visited)
    /\ Len(output) = Cardinality(visited)
    /\ \A i \in 1..Len(calls) :
          calls[i][1] # "dfs" => Count(order, calls[i][1]) = 1
    /\ \A i \in 1..Len(stack) : Count(order, stack[i].node) = 1
    /\ callee # <<>> /\ stack # <<>> => Count(order, Top.node) = 1
\* traverse has been invoked on a child that is not marked yet; its parent
\* has been emitted
C15_Witness ==
    /\ phase = "running"
    /\ callee # <<>>
    /\ callee[1] \notin visited
    /\ stack # <<>>
    /\ Count(order, Top.node) = 1
    /\ Cardinality(visited) >= 2

\* ------------------------------------------------------------------ C16
\* C16: only nodes that the null module reaches by a directed path are ever
\* called, marked or emitted; a node with an entry in the module map that is
\* not reachable is never marked and never emitted.
C16_Soundness ==
    LET R == Reachable
    IN
    /\ visited \subseteq R
    /\ \A i \in 1..Len(order) : order[i] \in R
    /\ callee # <<>> => callee[1] \in R
    /\ \A n \in Nodes :
          (moduleMap[n].exists /\ n \notin R) =>
              n \notin visited /\ Count(order, n) = 0
\* a complete traversal that left out a module which has an entry, and
\* connections of its own, but is not reachable
C16_Witness ==
    /\ phase = "done"
    /\ Cardinality(visited) >= 2
    /\ \E n \in AllModules :
          /\ moduleMap[n].exists
          /\ Succ(n) # {}
          /\ n \notin Reachable
          /\ n \notin visited

\* ------------------------------------------------------------------ C17
\* C17: nothing of a traversal exists before finishModules has fired; a firing
\* starts one traversal, from dfs on the null module; while it runs no other
\* firing is handled, and outside a firing no traversal step can be taken;
\* when the callback has returned the traversal is complete: no frame and no
\* call is left and every reachable node has been visited.
TraverseStep ==
    TraverseReturnVisited \/ TraverseVisit \/ TraverseThrow \/ LoopNext \/ LoopEnd
====
